---- MODULE Spec2Model ----
(***************************************************************************)
(* Listener bootstrap of oauth2_proxy (http.go): Server.ListenAndServe,    *)
(* Server.ServeHTTP, Server.ServeHTTPS, Server.ServeHTTPSRedirector and    *)
(* tcpKeepAliveListener.Accept, as a state machine of two tasks (the       *)
(* calling task and the redirector goroutine) inside one process.          *)
(*                                                                         *)
(* Go strings are sequences of one-character strings, so that url.Parse,   *)
(* URL.String and strings.TrimPrefix are computed, not assumed.            *)
(***************************************************************************)
EXTENDS Integers, Sequences, FiniteSets, TLC

\* ------------------------------------------------------------------ bounds
\* Connections the model lets a serve loop accept before it stops accepting.
MaxConns == 2

\* ------------------------------------------------------- program constants
\* tls.VersionTLS12 (0x0303)
VersionTLS12 == 771
\* 3 * time.Minute, in seconds
KeepAlivePeriod == 180

\* ------------------------------------------------------------- Go strings
Lower == {"a","b","c","d","e","f","g","h","i","j","k","l","m",
          "n","o","p","q","r","s","t","u","v","w","x","y","z"}
Upper == {"A","B","C","D","E","F","G","H","I","J","K","L","M",
          "N","O","P","Q","R","S","T","U","V","W","X","Y","Z"}
Digits == {"0","1","2","3","4","5","6","7","8","9"}

UpperToLower ==
  [c \in Upper |->
     CASE c = "A" -> "a" [] c = "B" -> "b" [] c = "C" -> "c" [] c = "D" -> "d"
       [] c = "E" -> "e" [] c = "F" -> "f" [] c = "G" -> "g" [] c = "H" -> "h"
       [] c = "I" -> "i" [] c = "J" -> "j" [] c = "K" -> "k" [] c = "L" -> "l"
       [] c = "M" -> "m" [] c = "N" -> "n" [] c = "O" -> "o" [] c = "P" -> "p"
       [] c = "Q" -> "q" [] c = "R" -> "r" [] c = "S" -> "s" [] c = "T" -> "t"
       [] c = "U" -> "u" [] c = "V" -> "v" [] c = "W" -> "w" [] c = "X" -> "x"
       [] c = "Y" -> "y" [] c = "Z" -> "z"]

\* strings.ToLower
ToLower(s) == [i \in 1..Len(s) |-> IF s[i] \in Upper THEN UpperToLower[s[i]] ELSE s[i]]

\* strings.HasPrefix
HasPrefix(s, p) == Len(s) >= Len(p) /\ SubSeq(s, 1, Len(p)) = p

\* strings.TrimPrefix
TrimPrefix(s, p) == IF HasPrefix(s, p) THEN SubSeq(s, Len(p) + 1, Len(s)) ELSE s

\* strings.Index for a one-character needle; 0 when absent (Go: -1)
IndexChar(s, c) ==
  IF \E i \in 1..Len(s) : s[i] = c
    THEN CHOOSE i \in 1..Len(s) : s[i] = c /\ \A j \in 1..(i - 1) : s[j] # c
    ELSE 0

\* strings.LastIndex for a one-character needle; 0 when absent
LastIndexChar(s, c) ==
  IF \E i \in 1..Len(s) : s[i] = c
    THEN CHOOSE i \in 1..Len(s) : s[i] = c /\ \A j \in (i + 1)..Len(s) : s[j] # c
    ELSE 0

AllDigits(s) == \A i \in 1..Len(s) : s[i] \in Digits

\* Literals used by the program and by its inputs.
Empty == << >>
StrHttp == <<"h","t","t","p">>
StrTcp == <<"t","c","p">>
StrUnix == <<"u","n","i","x">>
SchemeSep == <<":","/","/">>

\* ------------------------------------------------------------ net/url
\* url.getScheme: scan for the first ':'; letters always allowed, digits and
\* "+-." not in first position, anything else means "no scheme".
RECURSIVE getSchemeFrom(_, _)
getSchemeFrom(rawURL, i) ==
  IF i > Len(rawURL)
    THEN [scheme |-> Empty, path |-> rawURL, err |-> FALSE]
    ELSE LET c == rawURL[i] IN
      IF c \in Lower \cup Upper
        THEN getSchemeFrom(rawURL, i + 1)
      ELSE IF c \in Digits \cup {"+", "-", "."}
        THEN IF i = 1
               THEN [scheme |-> Empty, path |-> rawURL, err |-> FALSE]
               ELSE getSchemeFrom(rawURL, i + 1)
      ELSE IF c = ":"
        THEN IF i = 1
               THEN [scheme |-> Empty, path |-> Empty, err |-> TRUE]
               ELSE [scheme |-> SubSeq(rawURL, 1, i - 1),
                     path |-> SubSeq(rawURL, i + 1, Len(rawURL)),
                     err |-> FALSE]
      ELSE [scheme |-> Empty, path |-> rawURL, err |-> FALSE]

getScheme(rawURL) == getSchemeFrom(rawURL, 1)

\* url.validOptionalPort: "" or ":" followed by digits only.
validOptionalPort(port) ==
  \/ port = Empty
  \/ port[1] = ":" /\ AllDigits(SubSeq(port, 2, Len(port)))

\* url.parseHost (no IPv6 literal, no escapes in the modelled alphabet):
\* the text after the last ':' must be a valid optional port.
parseHostOk(host) ==
  LET i == LastIndexChar(host, ":") IN
    i = 0 \/ validOptionalPort(SubSeq(host, i, Len(host)))

\* The zero url.URL, with the error of url.Parse beside it.
URLValue(scheme, opaque, host, path, omitHost, err) ==
  [Scheme |-> scheme, Opaque |-> opaque, Host |-> host, Path |-> path,
   OmitHost |-> omitHost, err |-> err]

ParseError == URLValue(Empty, Empty, Empty, Empty, FALSE, TRUE)

\* url.Parse for addresses without '?', '#', '%', '@' or control bytes.
\* omitHost: the toolchain's net/url has URL.OmitHost (Go >= 1.19).
Parse(rawURL, omitHost) ==
  LET gs == getScheme(rawURL) IN
  IF gs.err THEN ParseError
  ELSE
    LET scheme == ToLower(gs.scheme)
        rest == gs.path
    IN
    IF ~HasPrefix(rest, <<"/">>) /\ scheme # Empty
      THEN \* rootless path after a scheme: opaque
           URLValue(scheme, rest, Empty, Empty, FALSE, FALSE)
    ELSE IF ~HasPrefix(rest, <<"/">>) /\ IndexChar(rest, ":") # 0
      THEN \* first path segment in URL cannot contain colon
           ParseError
    ELSE IF /\ (scheme # Empty \/ ~HasPrefix(rest, <<"/","/","/">>))
            /\ HasPrefix(rest, <<"/","/">>)
      THEN LET after == SubSeq(rest, 3, Len(rest))
               i == IndexChar(after, "/")
               authority == IF i > 0 THEN SubSeq(after, 1, i - 1) ELSE after
               tail == IF i > 0 THEN SubSeq(after, i, Len(after)) ELSE Empty
           IN IF parseHostOk(authority)
                THEN URLValue(scheme, Empty, authority, tail, FALSE, FALSE)
                ELSE ParseError
    ELSE IF scheme # Empty /\ HasPrefix(rest, <<"/">>)
      THEN URLValue(scheme, Empty, Empty, rest, omitHost, FALSE)
    ELSE URLValue(scheme, Empty, Empty, rest, FALSE, FALSE)

\* URL.String, for a URL without user info, query or fragment.
String(u) ==
  LET head == IF u.Scheme # Empty THEN u.Scheme \o <<":">> ELSE Empty IN
  IF u.Opaque # Empty
    THEN head \o u.Opaque
    ELSE
      LET auth ==
            IF u.Scheme # Empty \/ u.Host # Empty
              THEN IF u.OmitHost /\ u.Host = Empty
                     THEN Empty
                     ELSE (IF u.Host # Empty \/ u.Path # Empty
                             THEN <<"/","/">> ELSE Empty) \o u.Host
              ELSE Empty
          slash ==
            IF u.Path # Empty /\ u.Path[1] # "/" /\ u.Host # Empty
              THEN <<"/">> ELSE Empty
          sofar == head \o auth \o slash
          first == IF IndexChar(u.Path, "/") > 0
                     THEN SubSeq(u.Path, 1, IndexChar(u.Path, "/") - 1)
                     ELSE u.Path
          dot == IF sofar = Empty /\ IndexChar(first, ":") # 0
                   THEN <<".","/">> ELSE Empty
      IN sofar \o dot \o u.Path


\* ------------------------------------------------------------- errors
\* A Go error text is a sequence of fragments; strings.Contains(err.Error(), t)
\* asks whether the fragment t occurs in it.
ClosedText == "use of closed network connection"
NoErr == << >>
ErrClosed == <<"accept tcp: ", ClosedText>>
ErrAcceptFailed == <<"accept tcp: ", "invalid argument">>
ServeErrors == {ErrClosed, ErrAcceptFailed}

Contains(err, text) == \E i \in 1..Len(err) : err[i] = text

\* ------------------------------------------------------ configuration
SchemeTexts == {Empty, StrHttp, <<"H","T","T","P">>, StrUnix}
Separators == {Empty, <<":">>, SchemeSep, <<":","/">>}
AddressBodies == {<<":","8">>, <<"1",":","8">>, <<"/","s">>}

\* Values of Options.HttpAddress
HttpAddresses == {s \o p \o b : s \in SchemeTexts, p \in Separators, b \in AddressBodies}
\* Values of Options.HttpsAddress and Options.HttpsRedirectorAddress
TcpAddresses == {<<":","8">>, <<":","9">>}

OptionsSet ==
  [RedirectHttpToHttps : BOOLEAN,
   TLSCertFile : {"", "cert.pem"},
   TLSKeyFile : {"", "key.pem"},
   LetsEncryptEnabled : BOOLEAN,
   HttpAddress : HttpAddresses,
   HttpsAddress : TcpAddresses,
   HttpsRedirectorAddress : TcpAddresses]

VARIABLES
  Opts,          \* Server.Opts, immutable
  pairMatches,   \* environment: the files at non-empty paths are a matching pair
  pcMain,        \* position of the task that called ListenAndServe
  pcRedir,       \* position of the redirector goroutine
  exited,        \* the process has terminated (os.Exit inside log.Fatal)
  launched,      \* primary listener functions ListenAndServe has called
  u,             \* ServeHTTP: result of url.Parse
  listenCalls,   \* arguments of every net.Listen call made so far
  sockets,       \* listening sockets this process has bound
  config,        \* ServeHTTPS: the tls.Config
  serveErr,      \* error returned by the primary listener's Serve
  redirErr,      \* error returned by the redirector's http.ListenAndServe
  accepted,      \* connections the primary serve loop has accepted
  lastAccept,    \* what the last Accept of the serve loop returned
  logged         \* log lines written, by their fixed prefix

vars == <<Opts, pairMatches, pcMain, pcRedir, exited, launched, u,
          listenCalls, sockets, config, serveErr, redirErr, accepted, lastAccept,
          logged>>

envVars == <<Opts, pairMatches>>

\* ------------------------------------------------------------- net
KnownNetworks == {StrTcp, StrUnix}

\* net.SplitHostPort plus a numeric port: host ":" digits, host without
\* ':' or '/'.
ValidHostPort(addr) ==
  LET i == LastIndexChar(addr, ":") IN
    /\ i # 0
    /\ AllDigits(SubSeq(addr, i + 1, Len(addr)))
    /\ \A j \in 1..(i - 1) : addr[j] \notin {":", "/"}

AddrInUse(network, addr) ==
  \E s \in sockets : s.open /\ s.network = network /\ s.addr = addr

\* net.Listen cannot succeed: unknown network, unusable TCP address, or the
\* address is held by an open socket of this process.
ListenMustFail(network, addr) ==
  \/ network \notin KnownNetworks
  \/ network = StrTcp /\ ~ValidHostPort(addr)
  \/ AddrInUse(network, addr)

\* Outcomes of net.Listen: it may also fail for reasons outside the process.
ListenOutcomes(network, addr) ==
  IF ListenMustFail(network, addr) THEN {FALSE} ELSE BOOLEAN

Socket(owner, network, addr) ==
  [owner |-> owner, network |-> network, addr |-> addr, open |-> TRUE]

CloseOwned(owner) ==
  {IF s.owner = owner THEN [s EXCEPT !.open = FALSE] ELSE s : s \in sockets}

OpenSocketOf(owner) == \E s \in sockets : s.owner = owner /\ s.open

ListenCall(by, network, addr) == [by |-> by, network |-> network, addr |-> addr]

\* ------------------------------------------------------------- TLS
ZeroConfig ==
  [built |-> FALSE, MinVersion |-> 0, MaxVersion |-> 0, NextProtos |-> << >>,
   Certificates |-> << >>, GetCertificate |-> FALSE]

\* tls.LoadX509KeyPair: both files must exist and hold a matching pair.
LoadX509KeyPair(certFile, keyFile) == certFile # "" /\ keyFile # "" /\ pairMatches

\* Faulty variant of BaseConfig: MaxVersion left at its zero value (no upper pin).
BaseConfig_NoMaxVersion ==
  [ZeroConfig EXCEPT !.built = TRUE, !.MinVersion = VersionTLS12,
                     !.NextProtos = <<"http/1.1">>]

\* ServeHTTPS, lines 65-71: the configuration before certificates are sourced.
BaseConfig ==
  LET c == [ZeroConfig EXCEPT !.built = TRUE,
                              !.MinVersion = VersionTLS12,
                              !.MaxVersion = VersionTLS12]
  IN IF c.NextProtos = << >> THEN [c EXCEPT !.NextProtos = <<"http/1.1">>] ELSE c

\* Faulty variant of BuildConfig: the error of tls.LoadX509KeyPair is dropped.
BuildConfig_ErrDropped(opts) ==
  IF opts.LetsEncryptEnabled
    THEN [config |-> [BaseConfig EXCEPT !.GetCertificate = TRUE], err |-> FALSE]
    ELSE LET ok == LoadX509KeyPair(opts.TLSCertFile, opts.TLSKeyFile) IN
         [config |-> [BaseConfig EXCEPT
                        !.Certificates = <<IF ok THEN "loaded" ELSE "zero">>],
          err |-> FALSE]

\* Faulty variant of BuildConfig: the static pair is loaded whenever a path is
\* given, also in automatic mode.
BuildConfig_LoadsAlways(opts) ==
  LET static == opts.TLSCertFile # "" \/ opts.TLSKeyFile # "" \/ ~opts.LetsEncryptEnabled
      ok == LoadX509KeyPair(opts.TLSCertFile, opts.TLSKeyFile)
      base == [BaseConfig EXCEPT !.GetCertificate = opts.LetsEncryptEnabled]
  IN IF static
       THEN [config |-> [base EXCEPT !.Certificates = <<IF ok THEN "loaded" ELSE "zero">>],
             err |-> ~ok]
       ELSE [config |-> base, err |-> FALSE]

\* ServeHTTPS, lines 73-90: certificate sourcing; err is the load error.
BuildConfig(opts) ==
  IF opts.LetsEncryptEnabled
    THEN [config |-> [BaseConfig EXCEPT !.GetCertificate = TRUE], err |-> FALSE]
    ELSE LET ok == LoadX509KeyPair(opts.TLSCertFile, opts.TLSKeyFile) IN
         [config |-> [BaseConfig EXCEPT
                        !.Certificates = <<IF ok THEN "loaded" ELSE "zero">>],
          err |-> ~ok]

\* ------------------------------------------------------------- Init
\* The result of an Accept call: whether a connection was returned, the error,
\* the connection's keep-alive options, the results of the two option calls,
\* and whether the call went through tcpKeepAliveListener.
NoAccept ==
  [returned |-> FALSE, wrapped |-> FALSE, conn |-> FALSE, err |-> NoErr, keepAlive |-> FALSE,
   period |-> 0, setKeepAliveErr |-> FALSE, setPeriodErr |-> FALSE]

Init ==
  /\ Opts \in OptionsSet
  /\ pairMatches \in BOOLEAN
  /\ pcMain = "start"
  /\ pcRedir = "none"
  /\ exited = FALSE
  /\ launched = {}
  /\ u = ParseError
  /\ listenCalls = {}
  /\ sockets = {}
  /\ config = ZeroConfig
  /\ serveErr = NoErr
  /\ redirErr = NoErr
  /\ accepted = 0
  /\ lastAccept = NoAccept
  /\ logged = {}


\* ------------------------------------------------------ ListenAndServe
\* Faulty variant of UseHTTPS: static mode only when both paths are given.
UseHTTPS_BothPaths(opts) ==
  (opts.TLSKeyFile # "" /\ opts.TLSCertFile # "") \/ opts.LetsEncryptEnabled

\* Faulty variant of UseHTTPS: a configured HTTPS address also selects HTTPS.
UseHTTPS_OrAddress(opts) ==
  \/ opts.TLSKeyFile # "" \/ opts.TLSCertFile # "" \/ opts.LetsEncryptEnabled
  \/ opts.HttpsAddress # Empty

\* Line 25: the condition that selects ServeHTTPS.
UseHTTPS(opts) ==
  opts.TLSKeyFile # "" \/ opts.TLSCertFile # "" \/ opts.LetsEncryptEnabled

\* Faulty variant of StartRedirector: the goroutine is started without
\* looking at RedirectHttpToHttps.
StartRedirector_Unconditional ==
  /\ ~exited
  /\ pcMain = "start"
  /\ pcRedir' = "spawned"
  /\ pcMain' = "select"
  /\ UNCHANGED <<envVars, exited, launched, u, listenCalls, sockets, config,
                 serveErr, redirErr, accepted, lastAccept, logged>>

\* Lines 22-24: go s.ServeHTTPSRedirector() when redirection is enabled.
StartRedirector ==
  /\ ~exited
  /\ pcMain = "start"
  /\ pcRedir' = IF Opts.RedirectHttpToHttps THEN "spawned" ELSE pcRedir
  /\ pcMain' = "select"
  /\ UNCHANGED <<envVars, exited, launched, u, listenCalls, sockets, config,
                 serveErr, redirErr, accepted, lastAccept, logged>>

\* Faulty variant of SelectListener: the listener is started with a go
\* statement and ListenAndServe returns at once.
SelectListener_Async ==
  /\ ~exited
  /\ pcMain = "select"
  /\ launched' = launched \cup {IF UseHTTPS(Opts) THEN "ServeHTTPS" ELSE "ServeHTTP"}
  /\ pcMain' = "returned"
  /\ UNCHANGED <<envVars, pcRedir, exited, u, listenCalls, sockets, config,
                 serveErr, redirErr, accepted, lastAccept, logged>>

\* Lines 25-29: call ServeHTTPS or ServeHTTP on the calling task.
SelectListener ==
  /\ ~exited
  /\ pcMain = "select"
  /\ IF UseHTTPS(Opts)
       THEN launched' = launched \cup {"ServeHTTPS"} /\ pcMain' = "https_config"
       ELSE launched' = launched \cup {"ServeHTTP"} /\ pcMain' = "http_parse"
  /\ UNCHANGED <<envVars, pcRedir, exited, u, listenCalls, sockets, config,
                 serveErr, redirErr, accepted, lastAccept, logged>>

\* ----------------------------------------------------------- ServeHTTP
\* Faulty variant of NetworkType: the "http" case of the switch is missing.
NetworkType_NoHttpCase(scheme) ==
  IF scheme = Empty THEN StrTcp ELSE scheme

\* Lines 38-44: the transport for a parsed scheme.
NetworkType(scheme) ==
  IF scheme = Empty \/ scheme = StrHttp THEN StrTcp ELSE scheme

\* Line 45: the address handed to net.Listen.
ListenAddr(url) == TrimPrefix(String(url), url.Scheme \o SchemeSep)

\* Faulty variant of ReportsError: every non-nil serve error is logged.
ReportsError_Any(err) == err # NoErr

\* Lines 55 and 102: the serve error is logged.
ReportsError(err) == err # NoErr /\ ~Contains(err, ClosedText)

\* Lines 33-36: url.Parse, fatal on error. Whether net/url knows URL.OmitHost
\* depends on the toolchain the program was built with.
ServeHTTP_Parse ==
  /\ ~exited
  /\ pcMain = "http_parse"
  /\ \E omitHost \in BOOLEAN : u' = Parse(Opts.HttpAddress, omitHost)
  /\ IF u'.err
       THEN /\ logged' = logged \cup {"FATAL: could not parse"}
            /\ exited' = TRUE
            /\ pcMain' = "fatal"
       ELSE /\ pcMain' = "http_listen"
            /\ UNCHANGED <<logged, exited>>
  /\ UNCHANGED <<envVars, pcRedir, launched, listenCalls, sockets, config,
                 serveErr, redirErr, accepted, lastAccept>>

\* Faulty variant of ServeHTTP_Listen: a bind error is logged with log.Printf
\* and the function goes on to serve.
ServeHTTP_Listen_NotFatal ==
  /\ ~exited
  /\ pcMain = "http_listen"
  /\ LET networkType == NetworkType(u.Scheme)
         listenAddr == ListenAddr(u)
     IN /\ listenCalls' = listenCalls \cup {ListenCall("ServeHTTP", networkType, listenAddr)}
        /\ \E ok \in ListenOutcomes(networkType, listenAddr) :
             IF ok
               THEN /\ sockets' = sockets \cup {Socket("ServeHTTP", networkType, listenAddr)}
                    /\ logged' = logged \cup {"HTTP: listening"}
               ELSE /\ logged' = logged \cup {"FATAL: listen (http)", "HTTP: listening"}
                    /\ UNCHANGED sockets
  /\ pcMain' = "http_serve"
  /\ UNCHANGED <<envVars, pcRedir, exited, launched, u, config, serveErr, redirErr,
                 accepted, lastAccept>>

\* Lines 38-51: choose the transport, strip the prefix, net.Listen, fatal on
\* error.
ServeHTTP_Listen ==
  /\ ~exited
  /\ pcMain = "http_listen"
  /\ LET networkType == NetworkType(u.Scheme)
         listenAddr == ListenAddr(u)
     IN /\ listenCalls' = listenCalls \cup {ListenCall("ServeHTTP", networkType, listenAddr)}
        /\ \E ok \in ListenOutcomes(networkType, listenAddr) :
             IF ok
               THEN /\ sockets' = sockets \cup {Socket("ServeHTTP", networkType, listenAddr)}
                    /\ logged' = logged \cup {"HTTP: listening"}
                    /\ pcMain' = "http_serve"
                    /\ UNCHANGED exited
               ELSE /\ logged' = logged \cup {"FATAL: listen (http)"}
                    /\ exited' = TRUE
                    /\ pcMain' = "fatal"
                    /\ UNCHANGED sockets
  /\ UNCHANGED <<envVars, pcRedir, launched, u, config, serveErr, redirErr,
                 accepted, lastAccept>>

\* What the runtime gives an accepted TCP connection before any option is
\* set: keep-alive off, or on with the runtime's own 15 s default.
RawConns == {[keepAlive |-> FALSE, period |-> 0], [keepAlive |-> TRUE, period |-> 15]}

\* Lines 53-54: the serve loop accepts from the bare listener.
ServeHTTP_Accept ==
  /\ ~exited
  /\ pcMain = "http_serve"
  /\ OpenSocketOf("ServeHTTP")
  /\ accepted < MaxConns
  /\ accepted' = accepted + 1
  /\ \E raw \in RawConns :
       lastAccept' = [NoAccept EXCEPT !.returned = TRUE, !.conn = TRUE,
                                      !.keepAlive = raw.keepAlive,
                                      !.period = raw.period]
  /\ UNCHANGED <<envVars, pcMain, pcRedir, exited, launched, u, listenCalls,
                 sockets, config, serveErr, redirErr, logged>>

\* Faulty variant of ServeHTTP_ServeReturns: Serve returns the error and leaves
\* the listener as it is.
ServeHTTP_ServeReturns_NoClose ==
  /\ ~exited
  /\ pcMain = "http_serve"
  /\ serveErr' = IF OpenSocketOf("ServeHTTP") THEN ErrAcceptFailed ELSE ErrClosed
  /\ lastAccept' = [NoAccept EXCEPT !.returned = TRUE, !.err = serveErr']
  /\ pcMain' = "http_served"
  /\ UNCHANGED <<envVars, pcRedir, exited, launched, u, listenCalls, config,
                 redirErr, accepted, logged, sockets>>

\* Line 54: Accept fails, and server.Serve closes the listener and returns the
\* error: the closed-socket error once the socket was closed, another one
\* otherwise.
ServeHTTP_ServeReturns ==
  /\ ~exited
  /\ pcMain = "http_serve"
  /\ serveErr' = IF OpenSocketOf("ServeHTTP") THEN ErrAcceptFailed ELSE ErrClosed
  /\ lastAccept' = [NoAccept EXCEPT !.returned = TRUE, !.err = serveErr']
  /\ sockets' = CloseOwned("ServeHTTP")
  /\ pcMain' = "http_served"
  /\ UNCHANGED <<envVars, pcRedir, exited, launched, u, listenCalls, config,
                 redirErr, accepted, logged>>

\* Lines 55-60: log the error unless it is the closed-socket one, log the
\* closing line, return.
ServeHTTP_Exit ==
  /\ ~exited
  /\ pcMain = "http_served"
  /\ logged' = logged \cup {"HTTP: closing"}
                 \cup (IF ReportsError(serveErr) THEN {"ERROR: http.Serve()"} ELSE {})
  /\ pcMain' = "returned"
  /\ UNCHANGED <<envVars, pcRedir, exited, launched, u, listenCalls, sockets,
                 config, serveErr, redirErr, accepted, lastAccept>>

\* The listening socket of the serving primary listener is closed from
\* outside the listener function (shutdown).
CloseListener ==
  /\ ~exited
  /\ \/ pcMain = "http_serve" /\ OpenSocketOf("ServeHTTP") /\ sockets' = CloseOwned("ServeHTTP")
     \/ pcMain = "https_serve" /\ OpenSocketOf("ServeHTTPS") /\ sockets' = CloseOwned("ServeHTTPS")
  /\ UNCHANGED <<envVars, pcMain, pcRedir, exited, launched, u, listenCalls,
                 config, serveErr, redirErr, accepted, lastAccept, logged>>


\* Faulty variant of Accept: an error of SetKeepAlive or SetKeepAlivePeriod is
\* returned instead of the connection.
Accept_OptionErrorReturned(tcErr, raw, kaErr, kpErr) ==
  IF tcErr # NoErr
    THEN [NoAccept EXCEPT !.returned = TRUE, !.wrapped = TRUE, !.err = tcErr]
  ELSE IF kaErr \/ kpErr
    THEN [NoAccept EXCEPT !.returned = TRUE, !.wrapped = TRUE,
                          !.err = <<"setsockopt: ", "invalid argument">>,
                          !.setKeepAliveErr = kaErr, !.setPeriodErr = kpErr]
    ELSE [returned |-> TRUE, wrapped |-> TRUE, conn |-> TRUE, err |-> NoErr,
          keepAlive |-> TRUE, period |-> KeepAlivePeriod,
          setKeepAliveErr |-> FALSE, setPeriodErr |-> FALSE]

\* Faulty variant of Accept: the period is given in seconds instead of minutes.
Accept_ThreeSeconds(tcErr, raw, kaErr, kpErr) ==
  IF tcErr # NoErr
    THEN [NoAccept EXCEPT !.returned = TRUE, !.wrapped = TRUE, !.err = tcErr]
    ELSE [returned |-> TRUE, wrapped |-> TRUE, conn |-> TRUE, err |-> NoErr,
          keepAlive |-> IF kaErr THEN raw.keepAlive ELSE TRUE,
          period |-> IF kpErr THEN raw.period ELSE 3,
          setKeepAliveErr |-> kaErr, setPeriodErr |-> kpErr]

\* ------------------------------------------------ tcpKeepAliveListener
\* Lines 123-131. tcErr: the error of AcceptTCP; raw: the accepted
\* connection's options; kaErr, kpErr: SetKeepAlive / SetKeepAlivePeriod
\* failed (their results are discarded by the code).
Accept(tcErr, raw, kaErr, kpErr) ==
  IF tcErr # NoErr
    THEN [NoAccept EXCEPT !.returned = TRUE, !.wrapped = TRUE, !.err = tcErr]
    ELSE [returned |-> TRUE, wrapped |-> TRUE, conn |-> TRUE, err |-> NoErr,
          keepAlive |-> IF kaErr THEN raw.keepAlive ELSE TRUE,
          period |-> IF kpErr THEN raw.period ELSE KeepAlivePeriod,
          setKeepAliveErr |-> kaErr, setPeriodErr |-> kpErr]

\* ---------------------------------------------------------- ServeHTTPS
\* Lines 63-90: build the tls.Config; fatal when the static pair does not load.
ServeHTTPS_Config ==
  /\ ~exited
  /\ pcMain = "https_config"
  /\ LET b == BuildConfig(Opts) IN
       /\ config' = b.config
       /\ IF b.err
            THEN /\ logged' = logged \cup {"FATAL: loading tls config"}
                 /\ exited' = TRUE
                 /\ pcMain' = "fatal"
            ELSE /\ pcMain' = "https_listen"
                 /\ UNCHANGED <<logged, exited>>
  /\ UNCHANGED <<envVars, pcRedir, launched, u, listenCalls, sockets, serveErr,
                 redirErr, accepted, lastAccept>>

\* Faulty variant of ServeHTTPS_Listen: the bind waits until a started
\* redirector has bound its own socket.
ServeHTTPS_Listen_AfterRedirector ==
  /\ ~exited
  /\ pcMain = "https_listen"
  /\ pcRedir # "spawned"
  /\ LET addr == Opts.HttpsAddress IN
       /\ listenCalls' = listenCalls \cup {ListenCall("ServeHTTPS", StrTcp, addr)}
       /\ \E ok \in ListenOutcomes(StrTcp, addr) :
            IF ok
              THEN /\ sockets' = sockets \cup {Socket("ServeHTTPS", StrTcp, addr)}
                   /\ logged' = logged \cup {"HTTPS: listening"}
                   /\ pcMain' = "https_serve"
                   /\ UNCHANGED exited
              ELSE /\ logged' = logged \cup {"FATAL: listen (https)"}
                   /\ exited' = TRUE
                   /\ pcMain' = "fatal"
                   /\ UNCHANGED sockets
  /\ UNCHANGED <<envVars, pcRedir, launched, u, config, serveErr, redirErr,
                 accepted, lastAccept>>

\* Lines 92-96: net.Listen("tcp", addr), fatal on error.
ServeHTTPS_Listen ==
  /\ ~exited
  /\ pcMain = "https_listen"
  /\ LET addr == Opts.HttpsAddress IN
       /\ listenCalls' = listenCalls \cup {ListenCall("ServeHTTPS", StrTcp, addr)}
       /\ \E ok \in ListenOutcomes(StrTcp, addr) :
            IF ok
              THEN /\ sockets' = sockets \cup {Socket("ServeHTTPS", StrTcp, addr)}
                   /\ logged' = logged \cup {"HTTPS: listening"}
                   /\ pcMain' = "https_serve"
                   /\ UNCHANGED exited
              ELSE /\ logged' = logged \cup {"FATAL: listen (https)"}
                   /\ exited' = TRUE
                   /\ pcMain' = "fatal"
                   /\ UNCHANGED sockets
  /\ UNCHANGED <<envVars, pcRedir, launched, u, config, serveErr, redirErr,
                 accepted, lastAccept>>

\* Lines 98-100: the serve loop accepts through tcpKeepAliveListener.
ServeHTTPS_Accept ==
  /\ ~exited
  /\ pcMain = "https_serve"
  /\ OpenSocketOf("ServeHTTPS")
  /\ accepted < MaxConns
  /\ accepted' = accepted + 1
  /\ \E raw \in RawConns, kaErr \in BOOLEAN, kpErr \in BOOLEAN :
       lastAccept' = Accept(NoErr, raw, kaErr, kpErr)
  /\ UNCHANGED <<envVars, pcMain, pcRedir, exited, launched, u, listenCalls,
                 sockets, config, serveErr, redirErr, logged>>

\* Line 100: AcceptTCP fails, the wrapper returns the error, and srv.Serve
\* closes the listener and returns it.
ServeHTTPS_ServeReturns ==
  /\ ~exited
  /\ pcMain = "https_serve"
  /\ LET tcErr == IF OpenSocketOf("ServeHTTPS") THEN ErrAcceptFailed ELSE ErrClosed IN
       /\ \E raw \in RawConns : lastAccept' = Accept(tcErr, raw, FALSE, FALSE)
       /\ serveErr' = lastAccept'.err
  /\ sockets' = CloseOwned("ServeHTTPS")
  /\ pcMain' = "https_served"
  /\ UNCHANGED <<envVars, pcRedir, exited, launched, u, listenCalls, config,
                 redirErr, accepted, logged>>

\* Faulty variant of ServeHTTPS_Exit: a reported serve error goes to log.Fatalf.
ServeHTTPS_Exit_FatalOnError ==
  /\ ~exited
  /\ pcMain = "https_served"
  /\ IF ReportsError(serveErr)
       THEN /\ logged' = logged \cup {"ERROR: https.Serve()"}
            /\ exited' = TRUE
            /\ pcMain' = "fatal"
       ELSE /\ logged' = logged \cup {"HTTPS: closing"}
            /\ pcMain' = "returned"
            /\ UNCHANGED exited
  /\ UNCHANGED <<envVars, pcRedir, launched, u, listenCalls, sockets,
                 config, serveErr, redirErr, accepted, lastAccept>>

\* Lines 102-107: log the error unless it is the closed-socket one, log the
\* closing line, return.
ServeHTTPS_Exit ==
  /\ ~exited
  /\ pcMain = "https_served"
  /\ logged' = logged \cup {"HTTPS: closing"}
                 \cup (IF ReportsError(serveErr) THEN {"ERROR: https.Serve()"} ELSE {})
  /\ pcMain' = "returned"
  /\ UNCHANGED <<envVars, pcRedir, exited, launched, u, listenCalls, sockets,
                 config, serveErr, redirErr, accepted, lastAccept>>

\* ------------------------------------------------ ServeHTTPSRedirector
ErrAddrInUse == <<"listen tcp: ", "bind: address already in use">>

\* Faulty variant of Redirector_Listen: a bind error is logged with log.Print
\* and the goroutine ends.
Redirector_Listen_NotFatal ==
  /\ ~exited
  /\ pcRedir = "spawned"
  /\ LET addr == Opts.HttpsRedirectorAddress IN
       /\ listenCalls' = listenCalls \cup {ListenCall("ServeHTTPSRedirector", StrTcp, addr)}
       /\ \E ok \in ListenOutcomes(StrTcp, addr) :
            IF ok
              THEN /\ sockets' = sockets \cup {Socket("ServeHTTPSRedirector", StrTcp, addr)}
                   /\ logged' = logged \cup {"HTTPs redirector listening on"}
                   /\ pcRedir' = "serving"
                   /\ UNCHANGED redirErr
              ELSE /\ redirErr' = ErrAddrInUse
                   /\ logged' = logged \cup {"HTTPs redirector listening on", "redirector: fatal"}
                   /\ pcRedir' = "fatal"
                   /\ UNCHANGED sockets
  /\ UNCHANGED <<envVars, pcMain, exited, launched, u, config, serveErr, accepted,
                 lastAccept>>

\* Lines 110-112, first half: log the address, http.ListenAndServe binds it;
\* a bind error is returned straight into log.Fatal.
Redirector_Listen ==
  /\ ~exited
  /\ pcRedir = "spawned"
  /\ LET addr == Opts.HttpsRedirectorAddress IN
       /\ listenCalls' = listenCalls \cup {ListenCall("ServeHTTPSRedirector", StrTcp, addr)}
       /\ \E ok \in ListenOutcomes(StrTcp, addr) :
            IF ok
              THEN /\ sockets' = sockets \cup {Socket("ServeHTTPSRedirector", StrTcp, addr)}
                   /\ logged' = logged \cup {"HTTPs redirector listening on"}
                   /\ pcRedir' = "serving"
                   /\ UNCHANGED <<exited, redirErr>>
              ELSE /\ redirErr' = ErrAddrInUse
                   /\ logged' = logged \cup {"HTTPs redirector listening on", "redirector: fatal"}
                   /\ exited' = TRUE
                   /\ pcRedir' = "fatal"
                   /\ UNCHANGED sockets
  /\ UNCHANGED <<envVars, pcMain, launched, u, config, serveErr, accepted, lastAccept>>

\* Faulty variant of Redirector_ServeReturns: the closed-socket error is
\* treated as in the primary listeners, and the function returns.
Redirector_ServeReturns_ClosedBenign ==
  /\ ~exited
  /\ pcRedir = "serving"
  /\ \E err \in ServeErrors :
       /\ redirErr' = err
       /\ IF Contains(err, ClosedText)
            THEN /\ pcRedir' = "returned"
                 /\ UNCHANGED <<exited, logged>>
            ELSE /\ logged' = logged \cup {"redirector: fatal"}
                 /\ exited' = TRUE
                 /\ pcRedir' = "fatal"
  /\ sockets' = CloseOwned("ServeHTTPSRedirector")
  /\ UNCHANGED <<envVars, pcMain, launched, u, listenCalls, config, serveErr,
                 accepted, lastAccept>>

\* Line 112, second half: http.ListenAndServe returns its serve error (it
\* never returns nil) and log.Fatal terminates the process, whatever the error.
Redirector_ServeReturns ==
  /\ ~exited
  /\ pcRedir = "serving"
  /\ \E err \in ServeErrors : redirErr' = err
  /\ sockets' = CloseOwned("ServeHTTPSRedirector")
  /\ logged' = logged \cup {"redirector: fatal"}
  /\ exited' = TRUE
  /\ pcRedir' = "fatal"
  /\ UNCHANGED <<envVars, pcMain, launched, u, listenCalls, config, serveErr,
                 accepted, lastAccept>>

\* ------------------------------------------------------- specification
Next ==
  \/ StartRedirector
  \/ SelectListener
  \/ ServeHTTP_Parse
  \/ ServeHTTP_Listen
  \/ ServeHTTP_Accept
  \/ ServeHTTP_ServeReturns
  \/ ServeHTTP_Exit
  \/ ServeHTTPS_Config
  \/ ServeHTTPS_Listen
  \/ ServeHTTPS_Accept
  \/ ServeHTTPS_ServeReturns
  \/ ServeHTTPS_Exit
  \/ CloseListener
  \/ Redirector_Listen
  \/ Redirector_ServeReturns

Spec == Init /\ [][Next]_vars

TypeOK ==
  /\ pcMain \in {"start", "select", "http_parse", "http_listen", "http_serve",
                 "http_served", "https_config", "https_listen", "https_serve",
                 "https_served", "returned", "fatal"}
  /\ pcRedir \in {"none", "spawned", "serving", "fatal"}
  /\ exited \in BOOLEAN
  /\ accepted \in 0..MaxConns


\* =================================================================== claims
\* ListenAndServe has evaluated the condition of line 25.
Selected == pcMain \notin {"start", "select"}

HttpCalls == {c \in listenCalls : c.by = "ServeHTTP"}

\* C1: ListenAndServe launches ServeHTTPS iff TLSCertFile is non-empty or
\* TLSKeyFile is non-empty or LetsEncryptEnabled is true, and ServeHTTP
\* otherwise: once line 25 has run exactly one of the two has been launched,
\* never both, and before line 25 none; no other option enters the choice.
C1_ModeSelection ==
  LET tls == Opts.TLSCertFile # "" \/ Opts.TLSKeyFile # "" \/ Opts.LetsEncryptEnabled IN
    /\ Cardinality(launched) <= 1
    /\ ~Selected => launched = {}
    /\ Selected /\ tls => launched = {"ServeHTTPS"}
    /\ Selected /\ ~tls => launched = {"ServeHTTP"}

\* C1 witness: HTTPS was launched for a configuration with a certificate path
\* only, redirection enabled.
C1_Witness ==
  /\ launched = {"ServeHTTPS"}
  /\ Opts.TLSCertFile # "" /\ Opts.TLSKeyFile = "" /\ ~Opts.LetsEncryptEnabled
  /\ Opts.RedirectHttpToHttps

\* C2: every net.Listen call of ServeHTTP passes "tcp" when the parsed scheme
\* is "" or "http", and the parsed scheme itself otherwise.
C2_Transport ==
  \A c \in HttpCalls :
    /\ (u.Scheme = Empty \/ u.Scheme = StrHttp) => c.network = StrTcp
    /\ (u.Scheme # Empty /\ u.Scheme # StrHttp) => c.network = u.Scheme

\* C2 witness: an address written with an upper-case HTTP scheme was bound on
\* "tcp".
C2_Witness ==
  /\ HasPrefix(Opts.HttpAddress, <<"H","T","T","P",":">>)
  /\ \E c \in HttpCalls : c.network = StrTcp /\ u.Scheme = StrHttp

\* C3: the address ServeHTTP hands to net.Listen never begins with the parsed
\* scheme followed by its separator ':'.
C3_NoSchemePrefix ==
  \A c \in HttpCalls :
    u.Scheme # Empty => ~HasPrefix(c.addr, u.Scheme \o <<":">>)

\* C4: every tls.Config ServeHTTPS has built has MinVersion = MaxVersion =
\* TLS 1.2 and exactly the one protocol "http/1.1" in NextProtos, whichever
\* way its certificates are sourced.
C4_PinnedConfig ==
  config.built =>
    /\ config.MinVersion = VersionTLS12
    /\ config.MaxVersion = VersionTLS12
    /\ config.NextProtos = <<"http/1.1">>

\* C4 witness: an automatic-mode configuration is in use by a serving listener.
C4_Witness ==
  /\ config.built /\ config.GetCertificate
  /\ pcMain = "https_serve"

StaticMode ==
  /\ Opts.TLSCertFile # "" \/ Opts.TLSKeyFile # ""
  /\ ~Opts.LetsEncryptEnabled

PairLoads == Opts.TLSCertFile # "" /\ Opts.TLSKeyFile # "" /\ pairMatches

\* C5: in static mode, once the configuration has been built: if the pair
\* loads, construction did not fail and Certificates has exactly one entry, the
\* loaded pair; if it does not load, the process has terminated inside
\* ServeHTTPS, which has neither bound nor served.
C5_StaticPair ==
  StaticMode /\ config.built =>
    /\ PairLoads =>
         /\ Len(config.Certificates) = 1
         /\ config.Certificates[1] = "loaded"
         /\ "FATAL: loading tls config" \notin logged
         /\ pcMain \in {"https_listen", "https_serve", "https_served", "returned", "fatal"}
    /\ ~PairLoads =>
         /\ exited
         /\ pcMain = "fatal"
         /\ "FATAL: loading tls config" \in logged
         /\ "HTTPS: listening" \notin logged
         /\ \A c \in listenCalls : c.by # "ServeHTTPS"

\* C5 witness: a static-mode listener serves with its one loaded certificate.
C5_Witness ==
  /\ StaticMode /\ PairLoads
  /\ pcMain = "https_serve"
  /\ Len(config.Certificates) = 1


PrimaryFatalLines ==
  {"FATAL: could not parse", "FATAL: listen (http)", "FATAL: loading tls config",
   "FATAL: listen (https)"}

ServeLoopExited == pcMain \in {"http_served", "https_served", "returned"}

\* C6: for both primary listeners, once the listener function has returned:
\* a serve error that is the closed-socket error left no error line in the log,
\* any other serve error left the listener's error line; and from the moment
\* the serve loop exits the listener takes no fatal path: it is on its way to
\* its return or has returned, and if the process has terminated meanwhile it
\* was terminated by the redirector task, not by the listener.
C6_ServeExit ==
  /\ pcMain = "returned" /\ Contains(serveErr, ClosedText) =>
       logged \cap {"ERROR: http.Serve()", "ERROR: https.Serve()"} = {}
  /\ pcMain = "returned" /\ ~Contains(serveErr, ClosedText) =>
       /\ "ServeHTTP" \in launched => "ERROR: http.Serve()" \in logged
       /\ "ServeHTTPS" \in launched => "ERROR: https.Serve()" \in logged
  /\ pcMain = "returned" => serveErr # NoErr
  /\ serveErr # NoErr =>
       /\ ServeLoopExited
       /\ logged \cap PrimaryFatalLines = {}
       /\ exited => pcRedir = "fatal"

\* C6 witness: the HTTPS listener has returned after its socket was closed,
\* nothing was reported and the process is alive.
C6_Witness ==
  /\ pcMain = "returned"
  /\ "ServeHTTPS" \in launched
  /\ Contains(serveErr, ClosedText)
  /\ "ERROR: https.Serve()" \notin logged
  /\ ~exited

\* C7 as stated: every connection returned by tcpKeepAliveListener.Accept has
\* keep-alive enabled and a period of 3 minutes; a failed underlying accept
\* returns the error and no connection.
C7_AlwaysKeepAlive ==
  lastAccept.wrapped =>
    /\ lastAccept.conn => lastAccept.keepAlive /\ lastAccept.period = KeepAlivePeriod
    /\ lastAccept.err # NoErr => ~lastAccept.conn

\* C7, amended: every connection returned by tcpKeepAliveListener.Accept on
\* which SetKeepAlive and SetKeepAlivePeriod both succeeded has keep-alive
\* enabled and a period of 3 minutes; a failed underlying accept returns that
\* error and no connection, and a returned connection comes with no error.
C7_KeepAliveWhenSet ==
  lastAccept.wrapped =>
    /\ lastAccept.conn /\ ~lastAccept.setKeepAliveErr /\ ~lastAccept.setPeriodErr =>
         lastAccept.keepAlive /\ lastAccept.period = KeepAlivePeriod
    /\ lastAccept.conn /\ ~lastAccept.setKeepAliveErr => lastAccept.keepAlive
    /\ lastAccept.conn /\ ~lastAccept.setPeriodErr => lastAccept.period = KeepAlivePeriod
    /\ lastAccept.err # NoErr => ~lastAccept.conn
    /\ lastAccept.conn => lastAccept.err = NoErr

\* C7 witness: the wrapper returned a connection with both options applied.
C7_Witness ==
  /\ lastAccept.wrapped /\ lastAccept.conn
  /\ ~lastAccept.setKeepAliveErr /\ ~lastAccept.setPeriodErr
  /\ lastAccept.keepAlive /\ lastAccept.period = KeepAlivePeriod

RedirectorCalls == {c \in listenCalls : c.by = "ServeHTTPSRedirector"}
RedirectorSockets == {s \in sockets : s.owner = "ServeHTTPSRedirector"}

\* C8: the redirector task is started iff RedirectHttpToHttps is true; when
\* enabled it has been started before any primary startup step (mode
\* selection, parse, configuration, bind) and so before the primary listener
\* serves; when disabled no redirector task, bind or socket ever exists.
C8_RedirectorStart ==
  /\ pcRedir # "none" => Opts.RedirectHttpToHttps
  /\ Opts.RedirectHttpToHttps /\ pcMain # "start" => pcRedir # "none"
  /\ pcMain = "start" =>
       /\ pcRedir = "none"
       /\ launched = {} /\ listenCalls = {} /\ sockets = {} /\ ~config.built
  /\ ~Opts.RedirectHttpToHttps =>
       pcRedir = "none" /\ RedirectorCalls = {} /\ RedirectorSockets = {}

\* C8 witness: the primary listener serves while the redirector task, started
\* earlier, has bound its own socket.
C8_Witness ==
  /\ Opts.RedirectHttpToHttps
  /\ pcMain \in {"http_serve", "https_serve"}
  /\ pcRedir = "serving"

\* C9: the redirector task never ends without terminating the process: a bind
\* or serve error of the redirector, the closed-socket error included, leaves
\* the process terminated by the redirector's log.Fatal, whatever the primary
\* listener is doing; the task has no other end.
C9_RedirectorFatal ==
  /\ pcRedir \in {"none", "spawned", "serving", "fatal"}
  /\ pcRedir = "fatal" => exited /\ "redirector: fatal" \in logged /\ redirErr # NoErr
  /\ redirErr # NoErr => exited /\ pcRedir = "fatal"
  /\ (RedirectorCalls # {} /\ RedirectorSockets = {}) => exited /\ pcRedir = "fatal"

\* C9 witness: the redirector's serve call returned the closed-socket error
\* while the primary listener was bound and serving; the process is terminated.
C9_Witness ==
  /\ redirErr = ErrClosed
  /\ pcMain \in {"http_serve", "https_serve"}
  /\ \E s \in sockets : s.owner \in {"ServeHTTP", "ServeHTTPS"} /\ s.open
  /\ exited

PrimaryCalls == {c \in listenCalls : c.by \in {"ServeHTTP", "ServeHTTPS"}}
PrimarySockets == {s \in sockets : s.owner \in {"ServeHTTP", "ServeHTTPS"}}

\* C10: when url.Parse rejects HttpAddress in ServeHTTP, or net.Listen fails in
\* ServeHTTP or ServeHTTPS, the process has terminated by the listener's
\* log.Fatalf: the listener has not logged that it listens, holds no socket,
\* has accepted nothing, and has neither reached its serve loop nor returned.
C10_StartupFatal ==
  LET parseFailed == "ServeHTTP" \in launched /\ pcMain # "http_parse" /\ u.err
      bindFailed == PrimaryCalls # {} /\ PrimarySockets = {}
  IN
    /\ parseFailed => "FATAL: could not parse" \in logged /\ HttpCalls = {}
    /\ bindFailed => logged \cap {"FATAL: listen (http)", "FATAL: listen (https)"} # {}
    /\ parseFailed \/ bindFailed =>
         /\ exited
         /\ pcMain = "fatal"
         /\ logged \cap {"HTTP: listening", "HTTPS: listening", "HTTP: closing",
                         "HTTPS: closing"} = {}
         /\ accepted = 0 /\ serveErr = NoErr

\* C10 witness: the plain-HTTP bind failed on an address that parses and is
\* bindable, with no redirector involved.
C10_Witness ==
  /\ ~Opts.RedirectHttpToHttps
  /\ HttpCalls # {} /\ PrimarySockets = {}
  /\ \E c \in HttpCalls : c.network = StrTcp /\ ValidHostPort(c.addr)
  /\ exited /\ pcMain = "fatal"

\* C11: the two certificate sources exclude each other. With
\* LetsEncryptEnabled the built configuration has the retrieval hook and an
\* empty certificate list, and no static pair is loaded: whatever the static
\* paths hold, the load never fails the process. Without it the hook is not set
\* and the list holds exactly the static pair (or the process has terminated on
\* its load). No built configuration has both a certificate and the hook.
C11_ExclusiveSources ==
  config.built =>
    /\ Opts.LetsEncryptEnabled =>
         /\ config.GetCertificate
         /\ config.Certificates = << >>
         /\ "FATAL: loading tls config" \notin logged
    /\ ~Opts.LetsEncryptEnabled =>
         /\ ~config.GetCertificate
         /\ Len(config.Certificates) = 1
         /\ config.Certificates = <<"loaded">> \/ (exited /\ pcMain = "fatal")
    /\ ~(config.GetCertificate /\ config.Certificates # << >>)

\* C11 witness: automatic mode serves although a static certificate path is
\* given without a key and the files do not form a pair.
C11_Witness ==
  /\ Opts.LetsEncryptEnabled
  /\ Opts.TLSCertFile # "" /\ Opts.TLSKeyFile = "" /\ ~pairMatches
  /\ pcMain = "https_serve"
  /\ config.GetCertificate /\ config.Certificates = << >>

\* C12: once a primary listener's serve loop has exited, by an error or by
\* the socket having been closed, the socket that listener bound is closed; in
\* particular no primary listener function has returned with its socket open.
C12_SocketReleased ==
  ServeLoopExited =>
    /\ PrimarySockets # {}
    /\ \A s \in PrimarySockets : ~s.open

\* C12 witness: the plain-HTTP listener returned after an accept error on an
\* open socket, and the socket is closed.
C12_Witness ==
  /\ pcMain = "returned"
  /\ "ServeHTTP" \in launched
  /\ serveErr = ErrAcceptFailed
  /\ \E s \in PrimarySockets : ~s.open

\* A step of the primary listener from its serve loop towards its return.
PrimaryExitStep ==
  /\ pcMain \in {"http_serve", "https_serve", "http_served", "https_served"}
  /\ pcMain' # pcMain

\* C13: the steps by which a primary listener leaves its serve loop with a
\* non-fatal error, logs it and returns change nothing of the redirector: its
\* task stays where it is, its socket stays as it is and the process is not
\* terminated by them.
C13_SiblingUntouched ==
  [][PrimaryExitStep =>
       /\ pcMain' \in {"http_served", "https_served", "returned"}
       /\ pcRedir' = pcRedir
       /\ RedirectorSockets' = RedirectorSockets
       /\ redirErr' = redirErr
       /\ exited' = exited]_vars

\* C13 witness: the HTTPS listener has returned after a reported serve error
\* and the redirector is still serving on its open socket.
C13_Witness ==
  /\ pcMain = "returned"
  /\ "ERROR: https.Serve()" \in logged
  /\ pcRedir = "serving"
  /\ \E s \in RedirectorSockets : s.open
  /\ ~exited

\* The static material cannot be loaded: a path is missing or the files do
\* not match.
StaticUnloadable == StaticMode /\ ~PairLoads

\* C14: with static material that cannot be loaded, HTTPS is still the mode
\* selected and plain HTTP is never launched; the failure happens when the
\* configuration is built, where the process terminates by log.Fatalf, and as
\* the configuration is built before net.Listen, ServeHTTPS never calls
\* net.Listen and no primary socket exists.
C14_FailsAtLoad ==
  StaticUnloadable =>
    /\ "ServeHTTP" \notin launched
    /\ Selected => launched = {"ServeHTTPS"}
    /\ pcMain \in {"start", "select", "https_config", "fatal"}
    /\ pcMain = "fatal" => exited /\ config.built /\ "FATAL: loading tls config" \in logged
    /\ config.built => exited /\ pcMain = "fatal"
    /\ PrimaryCalls = {} /\ PrimarySockets = {}
    /\ "HTTPS: listening" \notin logged

\* C14 witness: only the key path is set; HTTPS was selected and the process
\* terminated at the load without any bind by the listener.
C14_Witness ==
  /\ Opts.TLSCertFile = "" /\ Opts.TLSKeyFile # "" /\ ~Opts.LetsEncryptEnabled
  /\ launched = {"ServeHTTPS"}
  /\ exited /\ "FATAL: loading tls config" \in logged
  /\ PrimaryCalls = {}

\* C15 as stated: when LetsEncryptEnabled is false and at least one of the two
\* static paths is empty, no TLS configuration is built.
C15_NoBuildUnlessBothPaths ==
  (~Opts.LetsEncryptEnabled /\ (Opts.TLSCertFile = "" \/ Opts.TLSKeyFile = "")) =>
    ~config.built

\* C15, amended: when LetsEncryptEnabled is false and both static paths are
\* empty, no TLS configuration is built (plain HTTP is the mode and ServeHTTPS
\* is never called); a configuration is built exactly when ServeHTTPS has run
\* its construction, which a single non-empty path is enough to cause.
C15_NoBuildInPlainMode ==
  /\ (~Opts.LetsEncryptEnabled /\ Opts.TLSCertFile = "" /\ Opts.TLSKeyFile = "") =>
       ~config.built /\ "ServeHTTPS" \notin launched
  /\ config.built <=>
       ("ServeHTTPS" \in launched /\ pcMain # "https_config")

\* C15 witness: nothing TLS is configured, plain HTTP serves and no
\* configuration exists.
C15_Witness ==
  /\ ~Opts.LetsEncryptEnabled /\ Opts.TLSCertFile = "" /\ Opts.TLSKeyFile = ""
  /\ pcMain = "http_serve"
  /\ ~config.built

\* C16: when SetKeepAlive or SetKeepAlivePeriod fails on an accepted
\* connection, tcpKeepAliveListener.Accept still returns that connection and
\* no error; the option that failed is as the runtime left it; the serve loop
\* is still serving and the listener has taken no error or fatal path.
C16_OptionFailureIgnored ==
  lastAccept.wrapped /\ (lastAccept.setKeepAliveErr \/ lastAccept.setPeriodErr) =>
    /\ lastAccept.conn
    /\ lastAccept.err = NoErr
    /\ lastAccept.setPeriodErr => lastAccept.period # KeepAlivePeriod
    /\ pcMain = "https_serve"
    /\ serveErr = NoErr
    /\ logged \cap (PrimaryFatalLines \cup {"ERROR: https.Serve()"}) = {}
    /\ exited => pcRedir = "fatal"

\* C16 witness: both option calls failed on a connection that came without
\* keep-alive; it was returned, and the process is alive and serving.
C16_Witness ==
  /\ lastAccept.wrapped /\ lastAccept.conn
  /\ lastAccept.setKeepAliveErr /\ lastAccept.setPeriodErr
  /\ ~lastAccept.keepAlive
  /\ pcMain = "https_serve" /\ ~exited

\* C17: the chosen primary listener runs on the task that called
\* ListenAndServe: that task has returned only after the listener's serve loop
\* exited (Serve returned an error and the closing line was logged); and the
\* return never waits for the redirector: whenever the serve loop has exited
\* and the process is alive, the listener's return is enabled, whatever the
\* redirector task is doing.
C17_BlocksUntilServeExit ==
  /\ pcMain = "returned" =>
       /\ serveErr # NoErr
       /\ lastAccept.returned /\ lastAccept.err = serveErr
       /\ logged \cap {"HTTP: closing", "HTTPS: closing"} # {}
  /\ launched # {} /\ serveErr = NoErr => pcMain # "returned"
  /\ (pcMain \in {"http_served", "https_served"} /\ ~exited) =>
       ENABLED (ServeHTTP_Exit \/ ServeHTTPS_Exit)

\* C17 witness: ListenAndServe has returned while the redirector task, started
\* before, has not even bound its socket.
C17_Witness ==
  /\ pcMain = "returned"
  /\ pcRedir = "spawned"
  /\ ~exited

\* C18: nothing makes the primary listener wait for the redirector: while the
\* process is alive every startup step of the calling task (mode selection,
\* parse, configuration, bind) is enabled whatever the redirector task has
\* done so far, so the primary can be bound and serving while the started
\* redirector has not yet bound.
C18_NoBarrier ==
  ~exited =>
    /\ pcMain = "select" => ENABLED SelectListener
    /\ pcMain = "http_parse" => ENABLED ServeHTTP_Parse
    /\ pcMain = "http_listen" => ENABLED ServeHTTP_Listen
    /\ pcMain = "https_config" => ENABLED ServeHTTPS_Config
    /\ pcMain = "https_listen" => ENABLED ServeHTTPS_Listen

\* C18 witness: redirection is enabled, the primary listener is bound and
\* serving, the redirector task is started and has made no bind yet.
C18_Witness ==
  /\ Opts.RedirectHttpToHttps
  /\ pcMain \in {"http_serve", "https_serve"}
  /\ \E s \in PrimarySockets : s.open
  /\ pcRedir = "spawned"
  /\ RedirectorCalls = {} /\ RedirectorSockets = {}
  /\ ~exited

\* The primary listener and the redirector have both called net.Listen for
\* the same TCP address.
SameAddressBinds ==
  \E p \in PrimaryCalls, r \in RedirectorCalls :
    p.network = StrTcp /\ r.network = StrTcp /\ p.addr = r.addr

\* C19 as stated: once both have tried to bind the same TCP address the
\* process has terminated, in every interleaving.
C19_AlwaysTerminates ==
  SameAddressBinds => exited

\* C19, amended: with the same TCP address for both, the two sockets are never
\* open together; a bind made while the other socket is open fails, and a
\* failed bind of either has terminated the process, so neither keeps serving
\* after the other's bind failed; the process is alive after both binds only
\* when the primary listener's socket had been released before the redirector
\* bound.
C19_SecondBindFatal ==
  SameAddressBinds =>
    /\ ~(\E p \in PrimarySockets, r \in RedirectorSockets : p.open /\ r.open)
    /\ (PrimarySockets = {} \/ RedirectorSockets = {}) => exited
    /\ ~exited =>
         /\ PrimarySockets # {} /\ RedirectorSockets # {}
         /\ \A p \in PrimarySockets : ~p.open

\* C19 witness: the redirector bound second while the primary listener was
\* serving on the same address; its bind failed and the process terminated.
C19_Witness ==
  /\ SameAddressBinds
  /\ pcMain \in {"http_serve", "https_serve"}
  /\ \E p \in PrimarySockets : p.open
  /\ RedirectorSockets = {}
  /\ exited /\ pcRedir = "fatal"

====
